---- MODULE Spec2Model ----
(***************************************************************************)
(* A model of the `booted` resampling library: the sampling strategies     *)
(* (src/src/samplers.rs), the statistic algebra, the bias-correcting       *)
(* estimator wrapper and the bootstrap driver (src/src/bootstrap.rs), and  *)
(* the replica reducer (src/src/summary.rs).                               *)
(*                                                                         *)
(* Each component has its own specification over the shared variables (a   *)
(* specification leaves the other components' variables at their idle      *)
(* values):                                                                *)
(*   SpecSample     SamplingStrategy::sample                               *)
(*   SpecJackknife  generate_block_jackknife_indices                       *)
(*   SpecStat       BootstrapStatistic for f64 and Vec<f64>                *)
(*   SpecBias       Estimator::bias_correct / bootstrap_bias_correct       *)
(*   SpecRun        Bootstrap::run                                         *)
(*   SpecPool       Bootstrap::run on the worker pool, with a nested run   *)
(*   SpecSummary    BootstrapResult::summarize                             *)
(*                                                                         *)
(* Conventions.  Rust slices are 0-indexed; a TLA+ sequence s holds the    *)
(* slice element at position p in s[p + 1].  An f64 is modelled by an      *)
(* exact rational <<n, d>> with d > 0 in lowest terms, by <<1, 0>> and     *)
(* <<-1, 0>> for the infinities and by <<0, 0>> for NaN; rounding of       *)
(* finite values is not modelled.  Option<X> is a sequence of length 0     *)
(* (None) or 1 (Some).  A call that may panic yields a record whose tag    *)
(* is "ok" or "panic".                                                     *)
(***************************************************************************)
EXTENDS Integers, Sequences, FiniteSets, TLC

VARIABLES
    s_strategy,  \* sample: the SamplingStrategy value (self)
    s_indices,   \* sample: the source index slice
    s_out,       \* sample: "pending", or the call's outcome
    j_in,        \* jackknife: the arguments (blocksize, data_length)
    j_out,       \* jackknife: "pending", or the call's outcome
    a_val,       \* statistic algebra: the current value of type T
    a_op,        \* statistic algebra: the last operation applied and its argument
    b_stat,      \* bias correction: the wrapped estimator function (stat)
    b_n_boot,    \* bias correction: the number of inner resamples (n_boot)
    b_data,      \* bias correction: the sample the wrapper is evaluated on (data)
    b_pc,        \* bias correction: "call", "loop" or "done"
    b_theta,     \* bias correction: theta_hat, once computed
    b_boot_sum,  \* bias correction: boot_sum
    b_valid,     \* bias correction: valid_count
    b_i,         \* bias correction: inner iterations completed
    b_last,      \* bias correction: resampled_data of the latest iteration
    b_outs,      \* bias correction: what stat returned in each iteration so far
    b_ret,       \* bias correction: "pending", or the wrapper's outcome
    r_func,      \* run: the estimator's function (self.estimator.func)
    r_indices,   \* run: the estimator's population index set
    r_n_boot,    \* run: self.n_boot
    r_sampler,   \* run: self.sampler
    r_pc,        \* run: "start", "par" (the parallel map), "done" or "aborted"
    r_central,   \* run: "pending", or the outcome of the central-value evaluation
    r_tasks,     \* run: per replica, its state and what the closure returned
    r_last,      \* run: the replica evaluated last and the resample it drew
    r_result,    \* run: None, or Some(the BootstrapResult returned)
    m_T,         \* summarize: the statistic type T, "f64" or "vec"
    m_result,    \* summarize: the BootstrapResult<T> (self)
    m_out,       \* summarize: "pending", or the call's outcome
    p_threads,   \* pool: the number of worker threads of the pool
    p_nested,    \* pool: whether the estimator itself runs an inner Bootstrap::run
    p_n_boot,    \* pool: n_boot of the outer run
    p_n_inner,   \* pool: n_boot of the inner runs
    p_main,      \* pool: where the thread that called the outer run is
    p_outer,     \* pool: the tasks of the outer parallel map, once it has begun
    p_inner,     \* pool: per outer evaluation, the tasks of its inner parallel map
    p_stack,     \* pool: per worker thread, the tasks it is inside of (last = innermost)
    p_stolen     \* pool: whether a waiting closure's thread began an inner replica
                 \*       while every thread of the pool was inside a closure

sampleVars == <<s_strategy, s_indices, s_out>>
jackVars == <<j_in, j_out>>
statVars == <<a_val, a_op>>
biasVars == <<b_stat, b_n_boot, b_data, b_pc, b_theta, b_boot_sum, b_valid, b_i,
              b_last, b_outs, b_ret>>

runVars == <<r_func, r_indices, r_n_boot, r_sampler, r_pc, r_central, r_tasks,
             r_last, r_result>>

sumVars == <<m_T, m_result, m_out>>

poolVars == <<p_threads, p_nested, p_n_boot, p_n_inner, p_main, p_outer, p_inner, p_stack,
              p_stolen>>

vars == <<sampleVars, jackVars, statVars, biasVars, runVars, sumVars, poolVars>>

(***************************************************************************)
(* Bounds of the model.                                                    *)
(***************************************************************************)
\* longest source index slice with arbitrary entries handed to sample
MaxN == 3
\* longest contiguous source index slice 0..n handed to sample
MaxLong == 5
\* index values are drawn from 0..MaxVal
MaxVal == 2
\* largest m of MOutOfN and largest block_size of Block / Thinned
MaxParam == 4
\* largest data_length handed to generate_block_jackknife_indices
MaxJackLen == 9
\* largest blocksize handed to generate_block_jackknife_indices
MaxJackBlock == 5
\* longest Vec<f64> statistic, and largest len handed to zero
MaxVecLen == 2
\* the algebra's values keep numerators within -MaxMag..MaxMag
MaxMag == 2
\* longest sample handed to the bias-corrected estimator
MaxBiasN == 2
\* the indices of that sample are drawn from 0..MaxBiasVal
MaxBiasVal == 1
\* largest number of inner resamples of the bias correction
MaxInner == 3
\* largest n_boot of a run
MaxBoot == 3
\* largest population 0..n of a run
MaxPop == 2
\* replica components handed to the reducer are drawn from 0..MaxStatVal
MaxStatVal == 1
\* most scalar replicas in a reduced result
MaxScalarSamples == 6
\* most vector replicas in a reduced result
MaxVecSamples == 2
\* largest failed_samples of a reduced result
MaxFailed == 1
MaxThreads == 2
MaxPoolBoot == 2

(***************************************************************************)
(* Helpers.                                                                *)
(***************************************************************************)
Range(s) == {s[i] : i \in 1..Len(s)}

SeqsUpTo(S, n) == UNION {[1..k -> S] : k \in 0..n}

RECURSIVE Concat(_)
\* the concatenation of a sequence of sequences
Concat(ss) == IF ss = <<>> THEN <<>> ELSE Head(ss) \o Concat(Tail(ss))

\* the ascending sequence lo, lo+1, .., hi-1 (a Rust range lo..hi)
RangeSeq(lo, hi) == IF hi <= lo THEN <<>> ELSE [i \in 1..(hi - lo) |-> lo + i - 1]

Pending == [tag |-> "pending", val |-> <<>>, reads |-> {}]
(***************************************************************************)
(* Sampling strategies (src/src/samplers.rs).                              *)
(***************************************************************************)
\* enum SamplingStrategy; p is m or block_size (0 for Simple)
SamplingStrategy ==
    {[name |-> "Simple", p |-> 0]}
    \cup {[name |-> nm, p |-> q] : nm \in {"MOutOfN", "Block", "Thinned"}, q \in 0..MaxParam}

\* a faulty variant of UniformRange: the upper end of the range is included
UniformRange_inclusive(lo, hi) == lo..hi

\* the values a uniform draw from the half-open range lo..hi can take
UniformRange(lo, hi) == lo..(hi - 1)

\* indices[p] for every p of ps, in order: a position outside the slice panics
Gather(indices, ps) ==
    IF \A i \in 1..Len(ps) : ps[i] \in 0..(Len(indices) - 1)
    THEN [tag |-> "ok", val |-> [i \in 1..Len(ps) |-> indices[ps[i] + 1]], reads |-> Range(ps)]
    ELSE [tag |-> "panic", val |-> <<>>, reads |-> Range(ps)]

\* the draws the rng hands to m_of_n_indices: m positions, each uniform on 0..len
m_of_n_draws(indices, m) ==
    IF m = 0 \/ indices = <<>> THEN {<<>>}
    ELSE [1..m -> UniformRange(0, Len(indices))]

m_of_n_indices(indices, m, draws) ==
    IF m = 0 \/ indices = <<>> THEN [tag |-> "ok", val |-> <<>>, reads |-> {}]
    ELSE Gather(indices, [i \in 1..m |-> draws[i]])

effective_len(data_len, block_size) == data_len - (data_len % block_size)

\* the draws the rng hands to block_indices: n_blocks block numbers, each
\* uniform on 0..n_blocks
block_draws(indices, block_size) ==
    IF block_size = 0 THEN {<<>>}
    ELSE LET n_blocks == effective_len(Len(indices), block_size) \div block_size
         IN  [1..n_blocks -> UniformRange(0, n_blocks)]

\* a faulty variant of block_start: the remainder is anchored at the back
block_start_back(offset, block, block_size) == block * block_size

\* the first position of block number `block`
block_start(offset, block, block_size) == offset + block * block_size

block_indices(indices, block_size, draws) ==
    IF block_size = 0 THEN [tag |-> "panic", val |-> <<>>, reads |-> {}]
    ELSE LET data_len == Len(indices)
             eff == effective_len(data_len, block_size)
             offset == data_len - eff
             n_blocks == eff \div block_size
             run(k) == LET start == block_start(offset, draws[k], block_size)
                       IN  [j \in 1..block_size |-> start + (j - 1)]
         IN  IF eff = 0 THEN [tag |-> "ok", val |-> <<>>, reads |-> {}]
             ELSE Gather(indices, Concat([k \in 1..n_blocks |-> run(k)]))

\* a faulty variant of thinned_m: the division rounds up
thinned_m_ceil(data_len, block_size) == (data_len + block_size - 1) \div block_size

\* the m that Thinned hands to MOutOfN
thinned_m(data_len, block_size) == data_len \div block_size

\* the draws one call of sample can make
sample_draws(self, indices) ==
    CASE self.name = "Simple" -> m_of_n_draws(indices, Len(indices))
      [] self.name = "MOutOfN" -> m_of_n_draws(indices, self.p)
      [] self.name = "Block" -> block_draws(indices, self.p)
      [] self.name = "Thinned" ->
            IF self.p = 0 THEN {<<>>}
            ELSE m_of_n_draws(indices, thinned_m(Len(indices), self.p))

\* <SamplingStrategy as Sampler>::sample, under the draws `draws`
sample(self, indices, draws) ==
    CASE self.name = "Simple" -> m_of_n_indices(indices, Len(indices), draws)
      [] self.name = "MOutOfN" -> m_of_n_indices(indices, self.p, draws)
      [] self.name = "Block" -> block_indices(indices, self.p, draws)
      [] self.name = "Thinned" ->
            IF self.p = 0 THEN [tag |-> "panic", val |-> <<>>, reads |-> {}]
            ELSE m_of_n_indices(indices, thinned_m(Len(indices), self.p), draws)

(***************************************************************************)
(* Block jackknife (src/src/samplers.rs).                                  *)
(***************************************************************************)
\* a faulty variant of jackknife_set: the kept part starts at 0, not at the remainder
jackknife_set_from_zero(k, blocksize, data_length, sample_start_index) ==
    LET start_block == sample_start_index + k * blocksize
        end_block == start_block + blocksize
    IN  RangeSeq(0, start_block) \o RangeSeq(end_block, data_length)

\* the k-th emitted sequence: (sample_start_index..start_block).chain(end_block..data_length)
jackknife_set(k, blocksize, data_length, sample_start_index) ==
    LET start_block == sample_start_index + k * blocksize
        end_block == start_block + blocksize
    IN  RangeSeq(sample_start_index, start_block) \o RangeSeq(end_block, data_length)

generate_block_jackknife_indices(blocksize, data_length) ==
    IF blocksize = 0 THEN [tag |-> "panic", val |-> <<>>, reads |-> {}]
    ELSE LET remainder == data_length % blocksize
             sample_start_index == remainder
             num_blocks == (data_length - remainder) \div blocksize
         IN  [tag |-> "ok",
              val |-> [i \in 1..num_blocks |->
                          jackknife_set(i - 1, blocksize, data_length, sample_start_index)],
              reads |-> {}]

(***************************************************************************)
(* f64 arithmetic on the rational model.                                   *)
(***************************************************************************)
Abs(x) == IF x < 0 THEN -x ELSE x

Sign(x) == IF x < 0 THEN -1 ELSE IF x > 0 THEN 1 ELSE 0

Min(x, y) == IF x <= y THEN x ELSE y

RECURSIVE GCD(_, _)
GCD(x, y) == IF y = 0 THEN x ELSE GCD(y, x % y)

\* n / d in canonical form; d = 0 gives an infinity (n # 0) or NaN (n = 0)
FNorm(n, d) ==
    IF d = 0 THEN <<Sign(n), 0>>
    ELSE LET g == GCD(Abs(n), Abs(d))
         IN  <<(Sign(d) * n) \div g, Abs(d) \div g>>

FromInt(i) == <<i, 1>>

FNaN == <<0, 0>>

FAdd(x, y) ==
    IF x[2] = 0 /\ y[2] = 0
    THEN (IF x = y THEN x ELSE FNaN)
    ELSE FNorm(x[1] * y[2] + y[1] * x[2], x[2] * y[2])

FSub(x, y) == FAdd(x, <<-y[1], y[2]>>)

FMul(x, y) == FNorm(x[1] * y[1], x[2] * y[2])

FDiv(x, y) == FNorm(x[1] * y[2], x[2] * y[1])

\* x < y on finite values
FLess(x, y) == x[1] * y[2] < y[1] * x[2]

(***************************************************************************)
(* The statistic algebra (src/src/bootstrap.rs, trait BootstrapStatistic). *)
(* A value of type T is [kind |-> "f64" or "vec", v |-> its components];   *)
(* an f64 has exactly one component.                                       *)
(***************************************************************************)
Scalar(x) == [kind |-> "f64", v |-> <<x>>]

Vector(xs) == [kind |-> "vec", v |-> xs]

f64_add(self, other) == Scalar(FAdd(self.v[1], other.v[1]))
f64_sub(self, other) == Scalar(FSub(self.v[1], other.v[1]))
f64_scale(self, factor) == Scalar(FMul(self.v[1], factor))
f64_zero(n) == Scalar(FromInt(0))
f64_len(self) == 1

\* zip stops at the shorter of the two
vec_add(self, other) ==
    Vector([i \in 1..Min(Len(self.v), Len(other.v)) |-> FAdd(self.v[i], other.v[i])])
vec_sub(self, other) ==
    Vector([i \in 1..Min(Len(self.v), Len(other.v)) |-> FSub(self.v[i], other.v[i])])
vec_scale(self, factor) == Vector([i \in 1..Len(self.v) |-> FMul(self.v[i], factor)])
\* a faulty variant of vec_zero: the vector is allocated with capacity n and left empty
vec_zero_with_capacity(n) == Vector(<<>>)

vec_zero(n) == Vector([i \in 1..n |-> FromInt(0)])
vec_len(self) == Len(self.v)

\* the trait's methods, dispatched on the implementing type
add(self, other) == IF self.kind = "f64" THEN f64_add(self, other) ELSE vec_add(self, other)
sub(self, other) == IF self.kind = "f64" THEN f64_sub(self, other) ELSE vec_sub(self, other)
scale(self, factor) == IF self.kind = "f64" THEN f64_scale(self, factor) ELSE vec_scale(self, factor)
zero(T, n) == IF T = "f64" THEN f64_zero(n) ELSE vec_zero(n)
len(self) == IF self.kind = "f64" THEN f64_len(self) ELSE vec_len(self)

(***************************************************************************)
(* Estimator functions.  The library takes any closure; the model takes    *)
(* the closures of the integration tests (src/tests/scalar_test.rs), with  *)
(* the index itself as the payload, data[i] = i, and 2*i as the payload of *)
(* a second column, and "int_ratio", a closure that panics on some         *)
(* resamples: Some((indices[0] / indices[indices.len() - 1]) as f64), whose *)
(* integer division panics on a zero divisor.                              *)
(***************************************************************************)
RECURSIVE SumSeq(_)
SumSeq(xs) == IF xs = <<>> THEN 0 ELSE Head(xs) + SumSeq(Tail(xs))

NoneVal == <<>>
SomeVal(x) == <<x>>
Returned(opt) == [tag |-> "ok", val |-> opt]
Panicked == [tag |-> "panic", val |-> <<>>]

EstFuncs == {"mean", "odd_first", "vec_mean", "int_ratio"}

\* the statistic type T of the closure
func_type(f) == IF f = "vec_mean" THEN "vec" ELSE "f64"

\* (self.func)(indices)
func_apply(f, indices) ==
    LET n == FromInt(Len(indices))
        sum == FromInt(SumSeq(indices))
    IN  CASE f = "mean" -> Returned(SomeVal(Scalar(FDiv(sum, n))))
          [] f = "odd_first" ->
                IF indices = <<>> THEN Panicked
                ELSE IF indices[1] % 2 = 0 THEN Returned(NoneVal)
                ELSE Returned(SomeVal(Scalar(FromInt(1))))
          [] f = "int_ratio" ->
                IF indices = <<>> THEN Panicked
                ELSE IF indices[Len(indices)] = 0 THEN Panicked
                ELSE Returned(SomeVal(Scalar(FromInt(indices[1] \div indices[Len(indices)]))))
          [] f = "vec_mean" ->
                IF indices = <<>> THEN Returned(NoneVal)
                ELSE Returned(SomeVal(Vector(<<FDiv(sum, n),
                                               FDiv(FMul(FromInt(2), sum), n)>>)))

(***************************************************************************)
(* Bias correction (src/src/bootstrap.rs, bootstrap_bias_correct).         *)
(***************************************************************************)
\* the positions (0..n).map(|_| data.choose(rng)) can pick
choose_draws(data) == [1..Len(data) -> UniformRange(0, Len(data))]

\* resampled_data under the picks `draws`
resampled_data(data, draws) == [k \in 1..Len(data) |-> data[draws[k] + 1]]

\* a faulty variant of too_few: the comparison admits equality
too_few_or_equal(valid_count, n_boot) == valid_count <= n_boot \div 2

\* valid_count < n_boot / 2
too_few(valid_count, n_boot) == valid_count < n_boot \div 2

\* theta_hat.scale(2.0).sub(&boot_sum.scale(1.0 / valid_count as f64))
bias_corrected(theta_hat, boot_sum, valid_count) ==
    LET mean_boot == scale(boot_sum, FDiv(FromInt(1), FromInt(valid_count)))
    IN  sub(scale(theta_hat, FromInt(2)), mean_boot)

(***************************************************************************)
(* The bootstrap driver (src/src/bootstrap.rs, Bootstrap::run).            *)
(***************************************************************************)
is_some(opt) == opt # NoneVal

is_none(opt) == opt = NoneVal

\* a replica not yet evaluated
Todo == [st |-> "todo", out |-> NoneVal]

\* the closure of the parallel map: |_| { let resampled_indices =
\* self.sampler.sample(indices); func(&resampled_indices) }, under the
\* sampler's draws; a panic of the sampler or of func unwinds out of it
replica(func, sampler, indices, draws) ==
    LET resampled_indices == sample(sampler, indices, draws)
        r == func_apply(func, resampled_indices.val)
    IN  IF resampled_indices.tag = "panic" \/ r.tag = "panic"
        THEN [st |-> "panic", out |-> NoneVal]
        ELSE [st |-> "done", out |-> r.val]

\* a faulty variant of partition: the None entries are dropped, not kept as failures
partition_flatten(samples) ==
    [passed |-> SelectSeq(samples, is_some), failed |-> <<>>]

\* samples.into_iter().partition(Option::is_some)
partition(samples) ==
    [passed |-> SelectSeq(samples, is_some), failed |-> SelectSeq(samples, is_none)]

\* the BootstrapResult built from the collected Vec<Option<T>>
bootstrap_result(n_boot, samples, central_val, sampler) ==
    LET parts == partition(samples)
        valid_samples == [k \in 1..Len(parts.passed) |-> parts.passed[k][1]]
    IN  [n_boot |-> n_boot,
         failed_samples |-> Len(parts.failed),
         samples |-> valid_samples,
         central_val |-> central_val,
         sampler |-> sampler]

(***************************************************************************)
(* The replica reducer (src/src/summary.rs).  The three sigma levels are   *)
(* kept to six decimals, as parts per SigmaDen; stddev is kept as its      *)
(* square, the variance.                                                   *)
(***************************************************************************)
SigmaDen == 1000000
ONE_SIGMA == 682689
TWO_SIGMA == 954499
THREE_SIGMA == 997300

RECURSIVE InsertF(_, _)
\* x put behind the last element of the sorted xs that is not greater
InsertF(x, xs) ==
    IF xs = <<>> THEN <<x>>
    ELSE IF FLess(x, Head(xs)) THEN <<x>> \o xs
    ELSE <<Head(xs)>> \o InsertF(x, Tail(xs))

RECURSIVE SortF(_)
\* data.sort_by(partial_cmp), a stable sort; on finite values
SortF(xs) == IF xs = <<>> THEN <<>> ELSE InsertF(xs[Len(xs)], SortF(SubSeq(xs, 1, Len(xs) - 1)))

RECURSIVE SumF(_)
SumF(xs) == IF xs = <<>> THEN FromInt(0) ELSE FAdd(Head(xs), SumF(Tail(xs)))

\* a faulty variant of quantile_index: the product is truncated, not rounded
quantile_index_truncated(signed_sigma, m) ==
    ((SigmaDen + signed_sigma) * (m - 1)) \div (2 * SigmaDen)

\* (q * (len - 1) as f64).round() as usize for q = (SigmaDen + signed_sigma) /
\* (2 * SigmaDen); round is half away from zero
quantile_index(signed_sigma, m) ==
    (2 * (SigmaDen + signed_sigma) * (m - 1) + 2 * SigmaDen) \div (4 * SigmaDen)

\* the closure quantile, on sorted data
quantile(data, signed_sigma) == data[quantile_index(signed_sigma, Len(data)) + 1]

confidence_interval(data, sigma) ==
    [low |-> quantile(data, -sigma), high |-> quantile(data, sigma)]

\* calculate_stats: None on empty data, else Some(Statistics)
calculate_stats(unsorted) ==
    IF unsorted = <<>> THEN NoneVal
    ELSE LET data == SortF(unsorted)
             m == Len(data)
             n == FromInt(m)
             mean == FDiv(SumF(data), n)
             sq(x) == FMul(FSub(x, mean), FSub(x, mean))
             variance == FDiv(SumF([i \in 1..m |-> sq(data[i])]),
                              FromInt(IF m - 1 > 1 THEN m - 1 ELSE 1))
             mid == m \div 2
             median == IF m % 2 = 0
                       THEN FDiv(FAdd(data[mid], data[mid + 1]), FromInt(2))
                       ELSE data[mid + 1]
         IN  SomeVal([mean |-> mean,
                      median |-> median,
                      variance |-> variance,
                      ci_68 |-> confidence_interval(data, ONE_SIGMA),
                      ci_95 |-> confidence_interval(data, TWO_SIGMA),
                      ci_99 |-> confidence_interval(data, THREE_SIGMA)])

\* a faulty variant of f64_compute_stats: unwrap_or(all-zero Statistics), not expect
f64_compute_stats_or_zero(samples) ==
    LET stats == calculate_stats([i \in 1..Len(samples) |-> samples[i].v[1]])
        none == [low |-> FromInt(0), high |-> FromInt(0)]
    IN  IF stats = NoneVal
        THEN Returned(SomeVal([mean |-> FromInt(0), median |-> FromInt(0),
                               variance |-> FromInt(0),
                               ci_68 |-> none, ci_95 |-> none, ci_99 |-> none]))
        ELSE Returned(stats)

\* <f64 as SummaryStatistic>::compute_stats
f64_compute_stats(samples) ==
    LET stats == calculate_stats([i \in 1..Len(samples) |-> samples[i].v[1]])
    IN  IF stats = NoneVal THEN Panicked ELSE Returned(stats)

\* column i of the transpose: the i-th component of every sample that has one
transposed(samples, i) ==
    LET holders == SelectSeq(samples, LAMBDA smp : Len(smp.v) >= i)
    IN  [k \in 1..Len(holders) |-> holders[k].v[i]]

\* <Vec<f64> as SummaryStatistic>::compute_stats: transposed[i].push panics
\* on a sample longer than the first; a column never is empty
vec_compute_stats(samples) ==
    IF samples = <<>> THEN Panicked
    ELSE LET n_components == Len(samples[1].v)
             cols == [i \in 1..n_components |-> calculate_stats(transposed(samples, i))]
         IN  IF \E k \in 1..Len(samples) : Len(samples[k].v) > n_components THEN Panicked
             ELSE IF \E i \in 1..n_components : cols[i] = NoneVal THEN Panicked
             ELSE Returned(SomeVal([i \in 1..n_components |-> cols[i][1]]))

compute_stats(T, samples) ==
    IF T = "f64" THEN f64_compute_stats(samples) ELSE vec_compute_stats(samples)

\* <BootstrapResult<T> as Summarizable>::summarize
summarize(T, self) ==
    LET statistics == compute_stats(T, self.samples)
        central_val ==
            IF self.central_val # NoneVal THEN self.central_val[1]
            ELSE zero(T, IF self.samples = <<>> THEN 1 ELSE len(self.samples[1]))
    IN  IF statistics.tag = "panic" THEN Panicked
        ELSE Returned(SomeVal([n_boot |-> self.n_boot,
                               replicas |-> self.samples,
                               central_val |-> central_val,
                               failed_samples |-> self.failed_samples,
                               statistics |-> statistics.val[1]]))

(***************************************************************************)
(* Idle values: what a specification leaves another component's variables  *)
(* at.                                                                     *)
(***************************************************************************)
IdleSample == s_strategy = [name |-> "Simple", p |-> 0] /\ s_indices = <<>> /\ s_out = Pending
IdleJack == j_in = <<1, 0>> /\ j_out = Pending
IdleStat == a_val = Scalar(FromInt(0)) /\ a_op = [name |-> "init", arg |-> 0]
IdleBias ==
    /\ b_stat = "mean" /\ b_n_boot = 0 /\ b_data = <<>> /\ b_pc = "idle"
    /\ b_theta = NoneVal /\ b_boot_sum = f64_zero(1) /\ b_valid = 0 /\ b_i = 0
    /\ b_last = <<>> /\ b_outs = <<>> /\ b_ret = [tag |-> "pending", val |-> <<>>]
IdleRun ==
    /\ r_func = "mean" /\ r_indices = <<>> /\ r_n_boot = 0
    /\ r_sampler = [name |-> "Simple", p |-> 0] /\ r_pc = "idle"
    /\ r_central = [tag |-> "pending", val |-> <<>>]
    /\ r_tasks = <<>> /\ r_last = [i |-> 0, resample |-> <<>>] /\ r_result = <<>>
IdleSummary ==
    /\ m_T = "f64"
    /\ m_result = bootstrap_result(0, <<>>, NoneVal, [name |-> "Simple", p |-> 0])
    /\ m_out = [tag |-> "pending", val |-> <<>>]
IdlePool ==
    /\ p_threads = 1 /\ p_nested = FALSE /\ p_n_boot = 0 /\ p_n_inner = 1
    /\ p_main = "idle" /\ p_outer = <<>> /\ p_inner = <<>> /\ p_stack = <<>>
    /\ p_stolen = FALSE

\* the source slices: every short slice over 0..MaxVal (repetitions and gaps
\* included) and the conventional populations 0..n
Populations == SeqsUpTo(0..MaxVal, MaxN) \cup {RangeSeq(0, n) : n \in 0..MaxLong}

(***************************************************************************)
(* SpecSample: one call of sample on any slice under any strategy.         *)
(***************************************************************************)
InitSample ==
    /\ s_strategy \in SamplingStrategy
    /\ s_indices \in Populations
    /\ s_out = Pending
    /\ IdleJack /\ IdleStat /\ IdleBias /\ IdleRun /\ IdleSummary /\ IdlePool

Sample ==
    /\ s_out.tag = "pending"
    /\ \E draws \in sample_draws(s_strategy, s_indices) :
           s_out' = sample(s_strategy, s_indices, draws)
    /\ UNCHANGED <<s_strategy, s_indices, jackVars, statVars, biasVars, runVars, sumVars, poolVars>>

NextSample == Sample

SpecSample == InitSample /\ [][NextSample]_vars

(***************************************************************************)
(* SpecJackknife: one call of generate_block_jackknife_indices.            *)
(***************************************************************************)
InitJackknife ==
    /\ j_in \in (0..MaxJackBlock) \X (0..MaxJackLen)
    /\ j_out = Pending
    /\ IdleSample /\ IdleStat /\ IdleBias /\ IdleRun /\ IdleSummary /\ IdlePool

Jackknife ==
    /\ j_out.tag = "pending"
    /\ j_out' = generate_block_jackknife_indices(j_in[1], j_in[2])
    /\ UNCHANGED <<sampleVars, j_in, statVars, biasVars, runVars, sumVars, poolVars>>

NextJackknife == Jackknife

SpecJackknife == InitJackknife /\ [][NextJackknife]_vars
(***************************************************************************)
(* SpecStat: the trait's operations applied to values of either type.      *)
(***************************************************************************)
\* the f64 values the algebra is exercised on: n/1 and n/2 with |n| <= MaxMag
StatFloats == {FNorm(n, d) : n \in (-MaxMag)..MaxMag, d \in 1..2}

StatValues(T) ==
    IF T = "f64" THEN {Scalar(x) : x \in StatFloats}
    ELSE {Vector(xs) : xs \in SeqsUpTo(StatFloats, MaxVecLen)}

\* the values handed to add and sub: components -1, 0 or 1
StatArgs(T) ==
    LET units == {FromInt(-1), FromInt(0), FromInt(1)}
    IN  IF T = "f64" THEN {Scalar(x) : x \in units}
        ELSE {Vector(xs) : xs \in SeqsUpTo(units, MaxVecLen)}

\* the value stays within StatValues
StatBounded(x) == \A i \in 1..Len(x.v) : x.v[i] \in StatFloats

\* the factors handed to scale
StatFactors == {FromInt(0), FromInt(1), FromInt(2), FNorm(1, 2)}

InitStat ==
    /\ a_val \in StatValues("f64") \cup StatValues("vec")
    /\ a_op = [name |-> "init", arg |-> 0]
    /\ IdleSample /\ IdleJack /\ IdleBias /\ IdleRun /\ IdleSummary /\ IdlePool

\* T::zero(n)
StatZero ==
    /\ \E n \in 0..MaxVecLen :
           /\ a_val' = zero(a_val.kind, n)
           /\ a_op' = [name |-> "zero", arg |-> n]
    /\ UNCHANGED <<sampleVars, jackVars, biasVars, runVars, sumVars, poolVars>>

\* a.add(&b)
StatAdd ==
    /\ \E b \in StatArgs(a_val.kind) :
           /\ StatBounded(add(a_val, b))
           /\ a_val' = add(a_val, b)
    /\ a_op' = [name |-> "add", arg |-> 0]
    /\ UNCHANGED <<sampleVars, jackVars, biasVars, runVars, sumVars, poolVars>>

\* a.sub(&b)
StatSub ==
    /\ \E b \in StatArgs(a_val.kind) :
           /\ StatBounded(sub(a_val, b))
           /\ a_val' = sub(a_val, b)
    /\ a_op' = [name |-> "sub", arg |-> 0]
    /\ UNCHANGED <<sampleVars, jackVars, biasVars, runVars, sumVars, poolVars>>

\* a.scale(factor)
StatScale ==
    /\ \E factor \in StatFactors :
           /\ StatBounded(scale(a_val, factor))
           /\ a_val' = scale(a_val, factor)
    /\ a_op' = [name |-> "scale", arg |-> 0]
    /\ UNCHANGED <<sampleVars, jackVars, biasVars, runVars, sumVars, poolVars>>

NextStat == StatZero \/ StatAdd \/ StatSub \/ StatScale

SpecStat == InitStat /\ [][NextStat]_vars

(***************************************************************************)
(* SpecBias: one evaluation of the estimator returned by bias_correct.     *)
(***************************************************************************)
InitBias ==
    /\ b_stat \in EstFuncs
    /\ b_n_boot \in 0..MaxInner
    /\ b_data \in SeqsUpTo(0..MaxBiasVal, MaxBiasN)
    /\ b_pc = "call"
    /\ b_theta = NoneVal /\ b_boot_sum = zero(func_type(b_stat), 1)
    /\ b_valid = 0 /\ b_i = 0 /\ b_last = <<>> /\ b_outs = <<>>
    /\ b_ret = [tag |-> "pending", val |-> <<>>]
    /\ IdleSample /\ IdleJack /\ IdleStat /\ IdleRun /\ IdleSummary /\ IdlePool

\* let theta_hat = stat(data)?; let mut boot_sum = T::zero(theta_hat.len());
\* let mut valid_count = 0;
BiasCall ==
    /\ b_pc = "call"
    /\ LET r == func_apply(b_stat, b_data)
       IN  IF r.tag = "panic" \/ r.val = NoneVal
           THEN /\ b_ret' = r
                /\ b_pc' = "done"
                /\ UNCHANGED <<b_theta, b_boot_sum>>
           ELSE /\ b_theta' = r.val
                /\ b_boot_sum' = zero(func_type(b_stat), len(r.val[1]))
                /\ b_pc' = "loop"
                /\ UNCHANGED b_ret
    /\ UNCHANGED <<b_stat, b_n_boot, b_data, b_valid, b_i, b_last, b_outs>>
    /\ UNCHANGED <<sampleVars, jackVars, statVars, runVars, sumVars, poolVars>>

\* one iteration of `for _ in 0..n_boot`
BiasIter ==
    /\ b_pc = "loop"
    /\ b_i < b_n_boot
    /\ \E draws \in choose_draws(b_data) :
           LET resampled == resampled_data(b_data, draws)
               r == func_apply(b_stat, resampled)
           IN  /\ b_last' = resampled
               /\ b_outs' = Append(b_outs, r.val)
               /\ IF r.tag = "panic"
                  THEN /\ b_ret' = r
                       /\ b_pc' = "done"
                       /\ UNCHANGED <<b_boot_sum, b_valid>>
                  ELSE /\ IF r.val # NoneVal
                          THEN /\ b_boot_sum' = add(b_boot_sum, r.val[1])
                               /\ b_valid' = b_valid + 1
                          ELSE UNCHANGED <<b_boot_sum, b_valid>>
                       /\ UNCHANGED <<b_ret, b_pc>>
    /\ b_i' = b_i + 1
    /\ UNCHANGED <<b_stat, b_n_boot, b_data, b_theta>>
    /\ UNCHANGED <<sampleVars, jackVars, statVars, runVars, sumVars, poolVars>>

\* the loop is over: the threshold test and the corrected value
BiasFinish ==
    /\ b_pc = "loop"
    /\ b_i = b_n_boot
    /\ b_ret' = IF too_few(b_valid, b_n_boot)
                THEN Returned(NoneVal)
                ELSE Returned(SomeVal(bias_corrected(b_theta[1], b_boot_sum, b_valid)))
    /\ b_pc' = "done"
    /\ UNCHANGED <<b_stat, b_n_boot, b_data, b_theta, b_boot_sum, b_valid, b_i,
                   b_last, b_outs>>
    /\ UNCHANGED <<sampleVars, jackVars, statVars, runVars, sumVars, poolVars>>

NextBias == BiasCall \/ BiasIter \/ BiasFinish

SpecBias == InitBias /\ [][NextBias]_vars

(***************************************************************************)
(* SpecRun: one call of Bootstrap::run.  The n_boot replicas are the tasks *)
(* of the parallel map: they are evaluated in any order, each once.        *)
(***************************************************************************)
\* the samplers a run is configured with
RunSamplers ==
    {[name |-> "Simple", p |-> 0], [name |-> "MOutOfN", p |-> 1],
     [name |-> "Block", p |-> 0], [name |-> "Block", p |-> 2],
     [name |-> "Thinned", p |-> 2]}

InitRun ==
    /\ r_func \in EstFuncs
    /\ r_indices \in {RangeSeq(0, n) : n \in 0..MaxPop}
    /\ r_n_boot \in 0..MaxBoot
    /\ r_sampler \in RunSamplers
    /\ r_pc = "start"
    /\ r_central = [tag |-> "pending", val |-> <<>>]
    /\ r_tasks = [i \in 1..r_n_boot |-> Todo]
    /\ r_last = [i |-> 0, resample |-> <<>>]
    /\ r_result = <<>>
    /\ IdleSample /\ IdleJack /\ IdleStat /\ IdleBias /\ IdleSummary /\ IdlePool

\* let central_val = self.estimator.apply(indices);
RunCentral ==
    /\ r_pc = "start"
    /\ r_central' = func_apply(r_func, r_indices)
    /\ r_pc' = IF r_central'.tag = "panic" THEN "aborted" ELSE "par"
    /\ UNCHANGED <<r_func, r_indices, r_n_boot, r_sampler, r_tasks, r_last, r_result>>
    /\ UNCHANGED <<sampleVars, jackVars, statVars, biasVars, sumVars, poolVars>>

\* one task of the parallel map evaluates its replica
Replica(i) ==
    /\ r_pc = "par"
    /\ r_tasks[i].st = "todo"
    /\ \E draws \in sample_draws(r_sampler, r_indices) :
           /\ r_tasks' = [r_tasks EXCEPT ![i] = replica(r_func, r_sampler, r_indices, draws)]
           /\ r_last' = [i |-> i, resample |-> sample(r_sampler, r_indices, draws).val]
    /\ UNCHANGED <<r_func, r_indices, r_n_boot, r_sampler, r_pc, r_central, r_result>>
    /\ UNCHANGED <<sampleVars, jackVars, statVars, biasVars, sumVars, poolVars>>

\* a panic that unwound out of a task is resumed in the caller of the
\* parallel map: run unwinds and returns nothing
RunAbort ==
    /\ r_pc = "par"
    /\ \E i \in 1..r_n_boot : r_tasks[i].st = "panic"
    /\ r_pc' = "aborted"
    /\ UNCHANGED <<r_func, r_indices, r_n_boot, r_sampler, r_central, r_tasks, r_last,
                   r_result>>
    /\ UNCHANGED <<sampleVars, jackVars, statVars, biasVars, sumVars, poolVars>>

\* a faulty variant of RunCollect: a panicked task is caught and kept as a None
RunCollect_catching ==
    /\ r_pc = "par"
    /\ \A i \in 1..r_n_boot : r_tasks[i].st # "todo"
    /\ r_result' = SomeVal(bootstrap_result(r_n_boot, [i \in 1..r_n_boot |-> r_tasks[i].out],
                                            r_central.val, r_sampler))
    /\ r_pc' = "done"
    /\ UNCHANGED <<r_func, r_indices, r_n_boot, r_sampler, r_central, r_tasks, r_last>>
    /\ UNCHANGED <<sampleVars, jackVars, statVars, biasVars, sumVars, poolVars>>

\* a faulty variant of RunCollect: the result is built as soon as one task has
\* returned, the unfinished ones read as None
RunCollect_early ==
    /\ r_pc = "par"
    /\ \E i \in 1..r_n_boot : r_tasks[i].st = "done"
    /\ \A i \in 1..r_n_boot : r_tasks[i].st # "panic"
    /\ r_result' = SomeVal(bootstrap_result(r_n_boot, [i \in 1..r_n_boot |-> r_tasks[i].out],
                                            r_central.val, r_sampler))
    /\ r_pc' = "done"
    /\ UNCHANGED <<r_func, r_indices, r_n_boot, r_sampler, r_central, r_tasks, r_last>>
    /\ UNCHANGED <<sampleVars, jackVars, statVars, biasVars, sumVars, poolVars>>

\* every task returned: collect() yields the Vec<Option<T>> in replica order,
\* it is partitioned and the BootstrapResult is returned
RunCollect ==
    /\ r_pc = "par"
    /\ \A i \in 1..r_n_boot : r_tasks[i].st = "done"
    /\ r_result' = SomeVal(bootstrap_result(r_n_boot, [i \in 1..r_n_boot |-> r_tasks[i].out],
                                            r_central.val, r_sampler))
    /\ r_pc' = "done"
    /\ UNCHANGED <<r_func, r_indices, r_n_boot, r_sampler, r_central, r_tasks, r_last>>
    /\ UNCHANGED <<sampleVars, jackVars, statVars, biasVars, sumVars, poolVars>>

NextRun == RunCentral \/ (\E i \in 1..r_n_boot : Replica(i)) \/ RunAbort \/ RunCollect

SpecRun == InitRun /\ [][NextRun]_vars

(***************************************************************************)
(* SpecPool: one call of run on a pool of p_threads worker threads, with   *)
(* an estimator that returns, and that (p_nested) runs an inner            *)
(* Bootstrap::run of p_n_inner replicas on the same pool before it does.   *)
(* The thread that calls the outer run is not a thread of the pool.  What  *)
(* the estimators return plays no part here and is left out.               *)
(*                                                                         *)
(* A thread is inside tasks <<k, j>>: <<i, 0>> is replica i of the outer   *)
(* map; <<k, 1>> is a replica of the inner map run by outer replica k, or  *)
(* by the central evaluation when k = 0.  An outer task is "todo" (pushed, *)
(* not begun), "eval" (its closure is running), "join" (its closure waits  *)
(* for its inner map) or "done", and the outer tasks are begun in the      *)
(* order of their range.  The closure of a map ignores its argument, so    *)
(* the replicas of an inner map are alike: the map is held as the number   *)
(* n of tasks pushed, the number todo not begun and the number done.       *)
(***************************************************************************)
PoolTodo == [st |-> "todo"]

\* the first task of a map that has not begun (0: there is none)
next_todo(tasks) ==
    IF \E j \in 1..Len(tasks) : tasks[j].st = "todo"
    THEN CHOOSE j \in 1..Len(tasks) :
             /\ tasks[j].st = "todo"
             /\ \A h \in 1..(j - 1) : tasks[h].st # "todo"
    ELSE 0

\* the task a worker thread is innermost in
Top(w) == p_stack[w][Len(p_stack[w])]

\* every task of the inner map of k has returned
JoinDone(k) == p_inner[k].done = p_inner[k].n

\* an inner map before it starts
NoMap == [n |-> 0, todo |-> 0, done |-> 0]

\* worker w is inside an outer closure that waits for its inner map
waiting(w) ==
    /\ p_stack[w] # <<>>
    /\ Top(w)[2] = 0
    /\ p_outer[Top(w)[1]].st = "join"
    /\ ~JoinDone(Top(w)[1])

\* a faulty variant of can_take: a thread that waits for a map blocks
can_take_blocking(w) == p_stack[w] = <<>>

\* a worker takes a pushed task when it has nothing to run, and also while it
\* waits for a map to finish
can_take(w) == p_stack[w] = <<>> \/ waiting(w)

InitPool ==
    /\ p_threads \in 1..MaxThreads
    /\ p_nested \in BOOLEAN
    /\ p_n_boot \in 0..MaxPoolBoot
    /\ p_n_inner \in 1..MaxPoolBoot
    /\ p_main = "central"
    /\ p_outer = <<>>
    /\ p_inner = [k \in 0..p_n_boot |-> NoMap]
    /\ p_stack = [w \in 1..p_threads |-> <<>>]
    /\ p_stolen = FALSE
    /\ IdleSample /\ IdleJack /\ IdleStat /\ IdleBias /\ IdleRun /\ IdleSummary

\* let central_val = self.estimator.apply(indices): a plain estimator returns;
\* a nested one starts its inner map from the calling thread
PoolCentral ==
    /\ p_main = "central"
    /\ IF p_nested
       THEN /\ p_inner' = [p_inner EXCEPT ![0] = [n |-> p_n_inner, todo |-> p_n_inner, done |-> 0]]
            /\ p_main' = "central_join"
       ELSE /\ p_main' = "fanout"
            /\ UNCHANGED p_inner
    /\ UNCHANGED <<p_threads, p_nested, p_n_boot, p_n_inner, p_outer, p_stack, p_stolen>>
    /\ UNCHANGED <<sampleVars, jackVars, statVars, biasVars, runVars, sumVars>>

\* the inner map of the central evaluation is complete: the estimator returns
PoolCentralJoin ==
    /\ p_main = "central_join"
    /\ JoinDone(0)
    /\ p_main' = "fanout"
    /\ UNCHANGED <<p_threads, p_nested, p_n_boot, p_n_inner, p_outer, p_inner, p_stack, p_stolen>>
    /\ UNCHANGED <<sampleVars, jackVars, statVars, biasVars, runVars, sumVars>>

\* (0..self.n_boot).into_par_iter().map(..): the n_boot tasks are pushed
PoolFanOut ==
    /\ p_main = "fanout"
    /\ p_outer' = [i \in 1..p_n_boot |-> PoolTodo]
    /\ p_main' = "join"
    /\ UNCHANGED <<p_threads, p_nested, p_n_boot, p_n_inner, p_inner, p_stack, p_stolen>>
    /\ UNCHANGED <<sampleVars, jackVars, statVars, biasVars, runVars, sumVars>>

\* .collect() returns once every task has, and run returns its result
PoolCollect ==
    /\ p_main = "join"
    /\ \A i \in 1..p_n_boot : p_outer[i].st = "done"
    /\ p_main' = "done"
    /\ UNCHANGED <<p_threads, p_nested, p_n_boot, p_n_inner, p_outer, p_inner, p_stack, p_stolen>>
    /\ UNCHANGED <<sampleVars, jackVars, statVars, biasVars, runVars, sumVars>>

PoolMain == PoolCentral \/ PoolCentralJoin \/ PoolFanOut \/ PoolCollect

\* worker w begins the next replica of the outer map
PoolTakeOuter(w) ==
    /\ w \in 1..p_threads
    /\ can_take(w)
    /\ next_todo(p_outer) # 0
    /\ p_stack' = [p_stack EXCEPT ![w] = Append(@, <<next_todo(p_outer), 0>>)]
    /\ p_outer' = [p_outer EXCEPT ![next_todo(p_outer)].st = "eval"]
    /\ UNCHANGED <<p_threads, p_nested, p_n_boot, p_n_inner, p_main, p_inner, p_stolen>>
    /\ UNCHANGED <<sampleVars, jackVars, statVars, biasVars, runVars, sumVars>>

\* worker w begins a replica of the inner map of k
PoolTakeInner(w, k) ==
    /\ w \in 1..p_threads
    /\ k \in 0..p_n_boot
    /\ can_take(w)
    /\ p_inner[k].todo > 0
    /\ p_stack' = [p_stack EXCEPT ![w] = Append(@, <<k, 1>>)]
    /\ p_inner' = [p_inner EXCEPT ![k].todo = @ - 1]
    /\ p_stolen' = (p_stolen \/ \A v \in 1..p_threads : p_stack[v] # <<>>)
    /\ UNCHANGED <<p_threads, p_nested, p_n_boot, p_n_inner, p_main, p_outer>>
    /\ UNCHANGED <<sampleVars, jackVars, statVars, biasVars, runVars, sumVars>>

\* the outer closure of worker w, a nested estimator, starts its inner map
PoolFork(w) ==
    /\ w \in 1..p_threads
    /\ p_nested
    /\ p_stack[w] # <<>>
    /\ Top(w)[2] = 0
    /\ p_outer[Top(w)[1]].st = "eval"
    /\ p_inner' = [p_inner EXCEPT ![Top(w)[1]] = [n |-> p_n_inner, todo |-> p_n_inner, done |-> 0]]
    /\ p_outer' = [p_outer EXCEPT ![Top(w)[1]].st = "join"]
    /\ UNCHANGED <<p_threads, p_nested, p_n_boot, p_n_inner, p_main, p_stack, p_stolen>>
    /\ UNCHANGED <<sampleVars, jackVars, statVars, biasVars, runVars, sumVars>>

\* the closure of an inner replica returns on worker w
PoolInnerReturn(w) ==
    /\ w \in 1..p_threads
    /\ p_stack[w] # <<>>
    /\ Top(w)[2] > 0
    /\ p_inner' = [p_inner EXCEPT ![Top(w)[1]].done = @ + 1]
    /\ p_stack' = [p_stack EXCEPT ![w] = SubSeq(@, 1, Len(@) - 1)]
    /\ UNCHANGED <<p_threads, p_nested, p_n_boot, p_n_inner, p_main, p_outer, p_stolen>>
    /\ UNCHANGED <<sampleVars, jackVars, statVars, biasVars, runVars, sumVars>>

\* the closure of an outer replica returns on worker w: a plain estimator
\* at once, a nested one when its inner map is complete
PoolOuterReturn(w) ==
    /\ w \in 1..p_threads
    /\ p_stack[w] # <<>>
    /\ Top(w)[2] = 0
    /\ \/ ~p_nested /\ p_outer[Top(w)[1]].st = "eval"
       \/ p_outer[Top(w)[1]].st = "join" /\ JoinDone(Top(w)[1])
    /\ p_outer' = [p_outer EXCEPT ![Top(w)[1]].st = "done"]
    /\ p_stack' = [p_stack EXCEPT ![w] = SubSeq(@, 1, Len(@) - 1)]
    /\ UNCHANGED <<p_threads, p_nested, p_n_boot, p_n_inner, p_main, p_inner, p_stolen>>
    /\ UNCHANGED <<sampleVars, jackVars, statVars, biasVars, runVars, sumVars>>

PoolWorker(w) ==
    \/ PoolTakeOuter(w)
    \/ \E k \in 0..MaxPoolBoot : PoolTakeInner(w, k)
    \/ PoolFork(w)
    \/ PoolInnerReturn(w)
    \/ PoolOuterReturn(w)

NextPool == PoolMain \/ (\E w \in 1..MaxThreads : PoolWorker(w))

\* the calling thread and every worker thread keep being scheduled
SpecPool ==
    /\ InitPool
    /\ [][NextPool]_vars
    /\ WF_vars(PoolMain)
    /\ \A w \in 1..MaxThreads : WF_vars(PoolWorker(w))

(***************************************************************************)
(* SpecSummary: one call of summarize on a BootstrapResult<T>.  The        *)
(* replicas of a Vec<f64> result may differ in length (an estimator may    *)
(* return vectors of any length); a vector replica here repeats one value. *)
(***************************************************************************)
\* the replicas a result can hold
ReplicaSeqs(T) ==
    IF T = "f64"
    THEN SeqsUpTo({Scalar(FromInt(x)) : x \in 0..MaxStatVal}, MaxScalarSamples)
    ELSE SeqsUpTo({Vector([i \in 1..k |-> FromInt(x)]) : k \in 0..MaxVecLen, x \in 0..MaxStatVal},
                  MaxVecSamples)

InitSummary ==
    /\ m_T \in {"f64", "vec"}
    /\ \E samples \in ReplicaSeqs(m_T), failed \in 0..MaxFailed :
           \E central \in {NoneVal} \cup {SomeVal(samples[k]) : k \in 1..Min(1, Len(samples))} :
               m_result = [n_boot |-> Len(samples) + failed,
                           failed_samples |-> failed,
                           samples |-> samples,
                           central_val |-> central,
                           sampler |-> [name |-> "Simple", p |-> 0]]
    /\ m_out = [tag |-> "pending", val |-> <<>>]
    /\ IdleSample /\ IdleJack /\ IdleStat /\ IdleBias /\ IdleRun /\ IdlePool

Summarize ==
    /\ m_out.tag = "pending"
    /\ m_out' = summarize(m_T, m_result)
    /\ UNCHANGED <<m_T, m_result>>
    /\ UNCHANGED <<sampleVars, jackVars, statVars, biasVars, runVars, poolVars>>

NextSummary == Summarize

SpecSummary == InitSummary /\ [][NextSummary]_vars

(***************************************************************************)
(* Claims about the sampling strategies (checked under SpecSample).        *)
(***************************************************************************)
SampleDone == s_out.tag # "pending"

\* the strategy's precondition block_size > 0 (Simple and MOutOfN have none)
BlockSizeOk == s_strategy.name \in {"Block", "Thinned"} => s_strategy.p > 0

\* the output length the strategy fixes for a source of length n
ExpectedLen(self, n) ==
    CASE self.name = "Simple" -> n
      [] self.name = "MOutOfN" -> IF self.p > 0 /\ n > 0 THEN self.p ELSE 0
      [] self.name = "Block" -> n - (n % self.p)
      [] self.name = "Thinned" -> n \div self.p

\* C2: with block_size > 0, sample returns, and the length of what it returns
\* is fixed by the strategy and the source length: Simple n, MOutOfN m (0 when
\* m = 0 or n = 0), Block n - n mod b, Thinned n / b.
C2_SampleLength ==
    (SampleDone /\ BlockSizeOk) =>
        /\ s_out.tag = "ok"
        /\ Len(s_out.val) = ExpectedLen(s_strategy, Len(s_indices))

\* oversampling (m > n) and a thinning that rounds down have both returned
C2_Witness ==
    /\ s_out.tag = "ok"
    /\ \/ s_strategy.name = "MOutOfN" /\ Len(s_indices) > 0
          /\ s_strategy.p > Len(s_indices) /\ Len(s_out.val) = s_strategy.p
       \/ s_strategy.name = "Thinned" /\ s_strategy.p = 2
          /\ Len(s_indices) = 5 /\ Len(s_out.val) = 2

\* C3: every element sample returns is an element of the source slice, and
\* every position it reads lies in [0, n).
C3_SampleContainment ==
    SampleDone =>
        /\ Range(s_out.val) \subseteq Range(s_indices)
        /\ s_out.reads \subseteq 0..(Len(s_indices) - 1)

\* a sample that read the last position of a slice with gaps and repetitions
C3_Witness ==
    /\ s_out.tag = "ok"
    /\ s_indices = <<2, 0, 2>>
    /\ s_strategy.name = "Simple"
    /\ s_out.reads = {0, 2}
    /\ s_out.val = <<2, 2, 2>>

\* C4: Block{b}, b > 0: with offset = n mod b and n_blocks = (n - offset) / b
\* the output is n_blocks runs of length b, each run idx[s .. s+b) for a start
\* s = offset + k*b with k in [0, n_blocks); the positions [0, offset) are
\* never read, and b = n returns idx itself.
C4_BlockContiguity ==
    (SampleDone /\ s_strategy.name = "Block" /\ s_strategy.p > 0) =>
        LET n == Len(s_indices)
            b == s_strategy.p
            offset == n % b
            n_blocks == (n - offset) \div b
        IN  /\ s_out.tag = "ok"
            /\ Len(s_out.val) = n_blocks * b
            /\ \A r \in 0..(n_blocks - 1) :
                   \E k \in 0..(n_blocks - 1) :
                       \A j \in 1..b :
                           s_out.val[r * b + j] = s_indices[offset + k * b + j]
            /\ s_out.reads \cap 0..(offset - 1) = {}
            /\ (b = n => s_out.val = s_indices)

\* two blocks drawn out of order behind a front remainder
C4_Witness ==
    /\ s_out.tag = "ok"
    /\ s_strategy = [name |-> "Block", p |-> 2]
    /\ s_indices = <<0, 1, 2, 3, 4>>
    /\ s_out.val = <<3, 4, 1, 2>>

(***************************************************************************)
(* Claims about the block jackknife (checked under SpecJackknife).         *)
(***************************************************************************)
IsAscending(s) == \A i \in 1..(Len(s) - 1) : s[i] < s[i + 1]

\* C5: generate_block_jackknife_indices(b, N), b > 0, r = N mod b,
\* K = (N - r) / b: K sequences are emitted; the k-th is ascending and holds
\* exactly [r, N) without block k = [r + k*b, r + (k+1)*b), so it has length
\* N - r - b and no index below r; the left-out blocks are pairwise disjoint
\* and cover [r, N).
C5_JackknifePartition ==
    (j_out.tag # "pending" /\ j_in[1] > 0) =>
        LET b == j_in[1]
            N == j_in[2]
            r == N % b
            K == (N - r) \div b
            out == j_out.val
            left(k) == (r..(N - 1)) \ Range(out[k + 1])
        IN  /\ j_out.tag = "ok"
            /\ Len(out) = K
            /\ \A k \in 0..(K - 1) :
                   /\ IsAscending(out[k + 1])
                   /\ Range(out[k + 1]) = (r..(N - 1)) \ ((r + k * b)..(r + (k + 1) * b - 1))
                   /\ Len(out[k + 1]) = N - r - b
                   /\ Range(out[k + 1]) \cap 0..(r - 1) = {}
            /\ \A k1, k2 \in 0..(K - 1) : k1 # k2 => left(k1) \cap left(k2) = {}
            /\ UNION {left(k) : k \in 0..(K - 1)} = r..(N - 1)

\* three emitted sets behind a front remainder of one index
C5_Witness ==
    /\ j_out.tag = "ok"
    /\ j_in = <<2, 7>>
    /\ j_out.val = << <<3, 4, 5, 6>>, <<1, 2, 5, 6>>, <<1, 2, 3, 4>> >>
(***************************************************************************)
(* Claims about the statistic algebra (checked under SpecStat).            *)
(***************************************************************************)
\* C10 as stated: for both statistic instances and every len >= 0,
\* zero(len).len() == len.
C10_ZeroLenAsStated == a_op.name = "zero" => len(a_val) = a_op.arg

\* C10, amended: for Vec<f64>, zero(len).len() == len for every len >= 0; for
\* the scalar f64, zero(len).len() == 1 whatever len is, so the law holds for
\* it exactly when len == 1.
C10_ZeroLen ==
    a_op.name = "zero" =>
        /\ a_val.kind = "vec" => len(a_val) = a_op.arg
        /\ a_val.kind = "f64" => (len(a_val) = 1 /\ (len(a_val) = a_op.arg <=> a_op.arg = 1))

\* a Vec<f64> zero of two components
C10_Witness ==
    /\ a_op = [name |-> "zero", arg |-> 2]
    /\ a_val = Vector(<<FromInt(0), FromInt(0)>>)
(***************************************************************************)
(* Claims about the bias correction (checked under SpecBias).              *)
(***************************************************************************)
\* the number of inner evaluations that returned Some
InnerSuccesses == Cardinality({i \in 1..Len(b_outs) : b_outs[i] # NoneVal})

RECURSIVE SumComponent(_, _)
\* the sum of component c over the inner evaluations that returned Some
SumComponent(outs, c) ==
    IF outs = <<>> THEN FromInt(0)
    ELSE IF Head(outs) = NoneVal THEN SumComponent(Tail(outs), c)
    ELSE FAdd(Head(outs)[1].v[c], SumComponent(Tail(outs), c))

\* C6: the bias-corrected estimator on a sample S returns None when f(S) is
\* None (running no inner resample); otherwise it runs exactly n_inner inner
\* resamples, each of length |S| with every element drawn from S, and with
\* valid the number of inner successes it returns None when
\* valid < n_inner / 2 and otherwise Some(2*f(S) - boot_sum/valid), boot_sum
\* being the sum of the successful inner values.
C6_BiasCorrect ==
    LET fS == func_apply(b_stat, b_data)
    IN  /\ (b_pc \in {"loop", "done"} /\ b_i > 0) =>
               /\ Len(b_last) = Len(b_data)
               /\ Range(b_last) \subseteq Range(b_data)
        /\ (b_pc = "done" /\ b_ret.tag = "ok") =>
               IF fS.val = NoneVal
               THEN b_ret.val = NoneVal /\ b_outs = <<>>
               ELSE /\ Len(b_outs) = b_n_boot
                    /\ IF InnerSuccesses < b_n_boot \div 2
                       THEN b_ret.val = NoneVal
                       ELSE /\ b_ret.val # NoneVal
                            /\ b_ret.val[1].kind = fS.val[1].kind
                            /\ Len(b_ret.val[1].v) = Len(fS.val[1].v)
                            /\ \A c \in 1..Len(fS.val[1].v) :
                                   b_ret.val[1].v[c] =
                                       FSub(FMul(FromInt(2), fS.val[1].v[c]),
                                            FDiv(SumComponent(b_outs, c),
                                                 FromInt(InnerSuccesses)))

\* three inner resamples of <<1, 0>>, one of them failed, and the corrected
\* value 2*1 - 2/2 returned
C6_Witness ==
    /\ b_pc = "done"
    /\ b_stat = "odd_first" /\ b_data = <<1, 0>> /\ b_n_boot = 3
    /\ InnerSuccesses = 2
    /\ b_ret = Returned(SomeVal(Scalar(FromInt(1))))
(***************************************************************************)
(* Claims about the driver (checked under SpecRun).                        *)
(***************************************************************************)
\* the replicas on which the estimator returned None / Some(v)
NoneReplicas == {i \in 1..r_n_boot : r_tasks[i].st = "done" /\ r_tasks[i].out = NoneVal}

SomeReplicas(v) == {i \in 1..r_n_boot : r_tasks[i].st = "done" /\ r_tasks[i].out = SomeVal(v)}

\* C1: the result of run satisfies samples.len() + failed_samples == n_boot,
\* failed_samples being the number of replicas on which the estimator returned
\* None and samples holding exactly the Some values (each as often as it was
\* returned).
C1_Conservation ==
    r_pc = "done" =>
        /\ r_result # NoneVal
        /\ LET res == r_result[1]
           IN  /\ res.n_boot = r_n_boot
               /\ Len(res.samples) + res.failed_samples = r_n_boot
               /\ res.failed_samples = Cardinality(NoneReplicas)
               /\ \A i \in 1..r_n_boot :
                      r_tasks[i].out # NoneVal => r_tasks[i].out[1] \in Range(res.samples)
               /\ \A v \in Range(res.samples) :
                      Cardinality({k \in 1..Len(res.samples) : res.samples[k] = v})
                          = Cardinality(SomeReplicas(v))

\* a run of three replicas of which some failed and some succeeded
C1_Witness ==
    /\ r_pc = "done"
    /\ r_n_boot = 3
    /\ r_func = "odd_first"
    /\ r_result[1].failed_samples = 2
    /\ r_result[1].samples = <<Scalar(FromInt(1))>>

\* the estimator (or the sampler under it) panicked in the central-value
\* evaluation or in a replica
PanicSeen ==
    \/ r_central.tag = "panic"
    \/ \E i \in 1..r_n_boot : r_tasks[i].st = "panic"

\* C9: once the estimator has panicked, on the central-value evaluation or on
\* a replica, run returns no BootstrapResult (the panic is not counted in
\* failed_samples); run aborts only on a panic; and a None return never
\* aborts: it is counted in failed_samples of the result.
C9_PanicAborts ==
    /\ PanicSeen => (r_pc # "done" /\ r_result = NoneVal)
    /\ r_pc = "aborted" => PanicSeen
    /\ r_pc = "done" =>
           /\ r_result # NoneVal
           /\ r_result[1].failed_samples = Cardinality(NoneReplicas)
           /\ r_result[1].failed_samples
                  = Cardinality({i \in 1..r_n_boot : r_tasks[i].out = NoneVal})

\* a run aborted by a replica's panic after another replica had returned
C9_Witness ==
    /\ r_pc = "aborted"
    /\ r_central.tag = "ok"
    /\ \E i, k \in 1..r_n_boot : r_tasks[i].st = "panic" /\ r_tasks[k].st = "done"
    /\ r_result = NoneVal
(***************************************************************************)
(* Claims about the reducer (checked under SpecSummary).                   *)
(***************************************************************************)
\* C7: summarize on a result with zero successful samples signals failure
\* (panics) and produces no summary, for the scalar and the vector statistic.
C7_EmptyReduction ==
    (m_out.tag # "pending" /\ m_result.samples = <<>>) =>
        (m_out.tag = "panic" /\ m_out.val = NoneVal)

\* a scalar result whose only replica failed has been reduced
C7_Witness ==
    /\ m_T = "f64"
    /\ m_result.samples = <<>>
    /\ m_result.failed_samples = 1 /\ m_result.n_boot = 1
    /\ m_out.tag = "panic"

\* some replica's len differs from the first replica's
ShapeMismatch ==
    /\ m_T = "vec"
    /\ m_result.samples # <<>>
    /\ \E k \in 1..Len(m_result.samples) :
           len(m_result.samples[k]) # len(m_result.samples[1])

\* C8: reducing vector replicas of which one's len differs from the first's,
\* longer or shorter, signals failure instead of returning statistics.
C8_ShapeMismatchFails ==
    (m_out.tag # "pending" /\ ShapeMismatch) => m_out.tag = "panic"
\* x <= y on finite values
FLeq(x, y) == ~FLess(y, x)

\* component c of every replica, in replica order
ComponentData(c) == [k \in 1..Len(m_result.samples) |-> m_result.samples[k].v[c]]

\* v is the element at 0-based position idx of the ascending arrangement of data
AtRank(data, idx, v) ==
    /\ Cardinality({i \in 1..Len(data) : FLess(data[i], v)}) <= idx
    /\ idx < Cardinality({i \in 1..Len(data) : FLeq(data[i], v)})

\* round(q * (m - 1)) for q = (SigmaDen + signed_sigma) / (2 * SigmaDen): the
\* k with k - 1/2 <= q * (m - 1) < k + 1/2
NearestRank(signed_sigma, m) ==
    CHOOSE k \in 0..(m - 1) :
        /\ (2 * k - 1) * 2 * SigmaDen <= 2 * (SigmaDen + signed_sigma) * (m - 1)
        /\ 2 * (SigmaDen + signed_sigma) * (m - 1) < (2 * k + 1) * 2 * SigmaDen

\* the interval's endpoints are the sorted data at round(q * (m - 1))
IsQuantileInterval(ci, data, sigma) ==
    /\ AtRank(data, NearestRank(-sigma, Len(data)), ci.low)
    /\ AtRank(data, NearestRank(sigma, Len(data)), ci.high)

\* the statistics of component c in a returned summary
ComponentStats(c) ==
    IF m_T = "f64" THEN m_out.val[1].statistics ELSE m_out.val[1].statistics[c]

\* the replicas all have the len of the first
SameShape ==
    \A k \in 1..Len(m_result.samples) : len(m_result.samples[k]) = len(m_result.samples[1])

\* C11: for every non-empty component vector (here NaN-free by construction)
\* the intervals of its statistics are nested, ci_68.low >= ci_95.low >=
\* ci_99.low and ci_68.high <= ci_95.high <= ci_99.high, and each endpoint is
\* D[round(q * (m - 1))] of the sorted data D.
C11_NestedIntervals ==
    (m_out.tag = "ok" /\ m_result.samples # <<>> /\ SameShape) =>
        \A c \in 1..len(m_result.samples[1]) :
            LET st == ComponentStats(c)
                data == ComponentData(c)
            IN  /\ FLeq(st.ci_95.low, st.ci_68.low)
                /\ FLeq(st.ci_99.low, st.ci_95.low)
                /\ FLeq(st.ci_68.high, st.ci_95.high)
                /\ FLeq(st.ci_95.high, st.ci_99.high)
                /\ IsQuantileInterval(st.ci_68, data, ONE_SIGMA)
                /\ IsQuantileInterval(st.ci_95, data, TWO_SIGMA)
                /\ IsQuantileInterval(st.ci_99, data, THREE_SIGMA)

\* six unsorted scalar replicas whose 68% interval is strictly inside the 95%
\* interval at the low end
C11_Witness ==
    /\ m_T = "f64"
    /\ m_out.tag = "ok"
    /\ m_result.samples = [k \in 1..6 |-> Scalar(FromInt(IF k = 3 THEN 0 ELSE 1))]
    /\ m_out.val[1].statistics.ci_68.low = FromInt(1)
    /\ m_out.val[1].statistics.ci_95.low = FromInt(0)
(***************************************************************************)
(* Claims about the parallel replicas (checked under SpecRun).             *)
(***************************************************************************)
\* what holds in every state of a run, whatever the order of the tasks
C12_State ==
    /\ r_pc = "start" => \A i \in 1..r_n_boot : r_tasks[i].st = "todo"
    /\ r_last.i # 0 =>
           /\ Range(r_last.resample) \subseteq Range(r_indices)
           /\ r_tasks[r_last.i].st = "done" =>
                  r_tasks[r_last.i].out = func_apply(r_func, r_last.resample).val
    /\ r_pc = "done" =>
           /\ \A i \in 1..r_n_boot : r_tasks[i].st = "done"
           /\ r_result # NoneVal
           /\ r_result[1].failed_samples
                  = Cardinality({i \in 1..r_n_boot : r_tasks[i].out = NoneVal})
           /\ \A i \in 1..r_n_boot :
                  \A v \in Range(r_tasks[i].out) :
                      Cardinality({k \in 1..Len(r_result[1].samples) : r_result[1].samples[k] = v})
                          = Cardinality({j \in 1..r_n_boot : r_tasks[j].out = SomeVal(v)})
           /\ Len(r_result[1].samples)
                  = Cardinality({i \in 1..r_n_boot : r_tasks[i].out # NoneVal})

\* what holds of every step of a run
C12_Step ==
    /\ r_indices' = r_indices
    /\ r_n_boot' = r_n_boot
    /\ \A i \in 1..r_n_boot : r_tasks[i].st # "todo" => r_tasks'[i] = r_tasks[i]
    /\ \A i, k \in 1..r_n_boot :
           (i # k /\ r_tasks'[i] # r_tasks[i]) => r_tasks'[k] = r_tasks[k]
    /\ (r_pc # "done" /\ r_pc' = "done") => \A i \in 1..r_n_boot : r_tasks[i].st = "done"
    /\ r_pc = "done" => (r_pc' = "done" /\ r_result' = r_result)

\* C12: in every interleaving of the replica tasks, run returns its result
\* only after all n_boot replicas have finished; a replica is evaluated once
\* (what it returned never changes), on a resample of its own drawn from the
\* population index set, which never changes; and failed_samples and the
\* multiset of samples are those of the per-replica outcomes, whatever the
\* order the tasks ran in.
C12_ReplicasOnceThenResult == [](C12_State) /\ [][C12_Step]_vars

\* a run of three replicas returned after replica 1 was the last to finish,
\* with replicas 1 and 2 evaluated on resamples that gave different outcomes
C12_Witness ==
    /\ r_pc = "done"
    /\ r_n_boot = 3
    /\ r_last.i = 1
    /\ r_tasks[1].out # r_tasks[2].out
    /\ r_tasks[3].out # NoneVal
(***************************************************************************)
(* Claims about termination (checked under SpecPool).                      *)
(***************************************************************************)
\* C13: when every call of the estimator returns, run eventually returns its
\* result, also when the estimator runs a nested Bootstrap::run on the same
\* finite pool: the outer run is never left waiting forever.
C13_RunReturns == <>(p_main = "done")

\* a nested run returned on a pool with no more threads than outer replicas,
\* where an outer closure waiting for its inner map had a replica begun on
\* its own thread
C13_Witness ==
    /\ p_main = "done"
    /\ p_nested
    /\ p_n_boot >= p_threads
    /\ p_stolen
(***************************************************************************)
(* Claims about the divisor of the bias correction (checked under          *)
(* SpecBias).                                                              *)
(***************************************************************************)
\* C14: whenever the bias-corrected estimator returns Some value, at least
\* one inner resample succeeded: the divisor valid_count of
\* boot_sum.scale(1.0 / valid_count) is at least 1, for every n_boot and
\* every pattern of inner successes and failures.
C14_DivisorPositive ==
    (b_pc = "done" /\ b_ret.tag = "ok" /\ b_ret.val # NoneVal) => b_valid >= 1
====
